---------------------------- MODULE Spec2Model ----------------------------
(***************************************************************************)
(* A model of turbinia/lib/utils.py: the image_export orchestration        *)
(* (_image_export, extract_artifacts, extract_files) and the password      *)
(* cracking orchestration (bruteforce_password_hashes).                    *)
(*                                                                         *)
(* One behaviour of Spec is one call of one of the module's functions,     *)
(* together with the external processes and threads that call starts;      *)
(* SpecOverlap has two calls of bruteforce_password_hashes side by side,   *)
(* SpecSequence a caller's calls one after the other, and SpecLive one     *)
(* call under fair scheduling.  Python                                     *)
(* strings that the code concatenates, joins or splits are sequences of    *)
(* pieces (a piece is a TLA+ string); None is the empty tuple and a value  *)
(* that may be None is wrapped by Some.                                    *)
(***************************************************************************)
EXTENDS Integers, Sequences, FiniteSets, TLC

(***************************************************************************)
(* Bounds of the model.                                                    *)
(***************************************************************************)
MaxNames == 2
MaxCreds == 2
MaxChunks == 2
MaxCalls == 2

(***************************************************************************)
(* Program constants.                                                      *)
(***************************************************************************)
DEFAULT_TIMEOUT == 7200
BRUTEFORCE_TIMEOUT == 300

None == <<>>
Some(v) == <<v>>

(* Sequences over S of length at most n. *)
SeqUpTo(S, n) == UNION {[1..k -> S] : k \in 0..n}

(***************************************************************************)
(* Input pools.                                                            *)
(***************************************************************************)
ArtifactPool == {"WindowsEventLogs", "BrowserHistory"}
FileNamePool == {"NTUSER.DAT"}
CredentialPool == {<<"password", "hunter2">>, <<"recovery_password", "1234">>}
DiskPaths == {"", "/dev/loop0"}
OutputDir == "/evidence/out"
CallerTimeouts == {DEFAULT_TIMEOUT, 30}
ExtractedFilePool == {"NTUSER.DAT", "logs/System.evtx"}
ExitCodes == {0, 1}

(* password_hashes: ["$6$salt"], ["$y$j9T"] and ["$y", "$6$salt"] *)
HashLists ==
  { << <<"$", "6", "$", "salt">> >>,
    << <<"$", "y", "$", "j9T">> >>,
    << <<"$", "y">>, <<"$", "6", "$", "salt">> >> }
TmpDirs == {"", "/evidence/tmp"}
ExtraArgs == {<<>>, <<"-O", " ", "-w3">>}

(* What the cracking tool appends to its result store in one write: the    *)
(* lines "abc:pass:word\n", "h2: \n" and "garbage\n", and "h3:pw" with no    *)
(* line end.                                                               *)
ChunkPool ==
  { <<"abc", ":", "pass", ":", "word", "\n">>,
    <<"h2", ":", " ", "\n">>,
    <<"garbage", "\n">>,
    <<"h3", ":", "pw">> }

(* The chunks of ChunkPool that are whole hash:plaintext lines. *)
CrackedLines == {<<"abc", ":", "pass", ":", "word", "\n">>}

(* The chunks of ChunkPool that are lines with no colon. *)
MalformedLines == {<<"garbage", "\n">>}

(* The paths of the file system, each <<directory, name>>. *)
UserList == <<"~", "password.lst">>
SystemList == <<"/usr/share/john", "password.lst">>
UserRules == <<"~", "turbinia-password-cracking.rules">>
JohnPot == <<"~/.john", "john.pot">>
TmpHashes == <<"/tmp", "tmpHASHES">>
TmpRules == <<"/tmp", "tmpRULES">>
GetTempDir == "/tmp"
HashcatPots == {<<d, "hashcat.pot">> : d \in (TmpDirs \ {""}) \cup {GetTempDir}}
Paths == {UserList, SystemList, UserRules, JohnPot, TmpHashes, TmpRules} \cup HashcatPots

(* dict.get(key) *)
Get(d, k) == IF k \in DOMAIN d THEN d[k] ELSE None

(* bool(x) of a value that is None or a non-empty dict *)
Truthy(x) == x # None

(* str.lower() on the job names the model knows. *)
Lower(s) == IF s = "FileArtifactExtractionJob" THEN "fileartifactextractionjob" ELSE s

(* The per-job entries config.ParseDependencies() may hold. *)
DependencyEntries ==
  [docker_image : {None, Some("log2timeline/plaso")},
   timeout : {None, Some(0), Some(60)}]

(* The dependency maps: the job's entry (keyed by its lower-cased name) is *)
(* there or not, and an entry under the name as written may be there too.  *)
StrayEntry == [docker_image |-> Some("other/image"), timeout |-> Some(90)]

DependencyMaps ==
  {d \in UNION {[K -> DependencyEntries \cup {StrayEntry}] :
                   K \in SUBSET {"fileartifactextractionjob", "FileArtifactExtractionJob"}} :
     /\ "FileArtifactExtractionJob" \in DOMAIN d => d["FileArtifactExtractionJob"] = StrayEntry
     /\ "fileartifactextractionjob" \in DOMAIN d => d["fileartifactextractionjob"] # StrayEntry}

VARIABLES
  op,                   \* the function the caller invoked
  pc,                   \* where the calling thread is
  exc,                  \* the exception that reached the caller, or NoExc
  returned,             \* the value returned to the caller, or None
  artifact_names,       \* argument artifact_names (extract_artifacts)
  file_name,            \* argument file_name (extract_files)
  credentials,          \* argument credentials
  disk_path,            \* argument disk_path
  timeout,              \* argument timeout
  command,              \* the argument list (image_export_cmd / command)
  config_loaded,        \* config.LoadConfig() has been called
  DOCKER_ENABLED,       \* config.DOCKER_ENABLED, as LoadConfig() left it
  dependencies,         \* config.ParseDependencies()
  launches,             \* the executions started: check_call / execute_container
  tool,                 \* the extraction tool's process
  out_files,            \* the files under output_dir
  password_hashes,      \* argument password_hashes
  tmp_dir,              \* argument tmp_dir
  extra_args,           \* argument extra_args
  fs,                   \* the other files: path -> None or Some(content)
  cmd,                  \* the cracking command
  pot_file,             \* the result-store path the call reads
  child,                \* the cracking process and its Popen object
  timer,                \* the threading.Timer and its thread
  terminate_call,       \* the child's state when the timer called child.terminate
  pot_read,             \* the result-store content the call read
  result,               \* the local list result
  parked,               \* the frame of a call running in another thread
  calls,                \* the calls the caller has made, this one included
  last                  \* how the caller's previous call ended

argVars == <<artifact_names, file_name, credentials, disk_path, timeout>>
exVars == <<command, config_loaded, DOCKER_ENABLED, dependencies, launches, tool, out_files>>
bfArgs == <<password_hashes, tmp_dir, extra_args>>
bfVars == <<fs, cmd, pot_file, child, timer, terminate_call, pot_read, result>>
seqVars == <<parked, calls, last>>
vars == <<op, pc, exc, returned, argVars, exVars, bfArgs, bfVars, seqVars>>

NoExc == [type |-> "none"]
TurbiniaException(m) == [type |-> "TurbiniaException", msg |-> m]

OSError(m) == [type |-> "OSError", msg |-> m]
ValueError(m) == [type |-> "ValueError", msg |-> m]

NoTool == [state |-> "none"]
NoChild == [state |-> "none", signalled |-> FALSE, written |-> 0, wrote |-> <<>>]
NoTimer == [state |-> "none", finished |-> FALSE]
NoCall == [pc |-> "none"]

(***************************************************************************)
(* ArtifactExtractionCommandBuilder                                        *)
(***************************************************************************)
(* One argument of an argument list: a string of one piece. *)
W(s) == <<s>>

RECURSIVE Join(_, _)
(* sep.join(strs): the pieces of the strings with sep between them. *)
Join(strs, sep) ==
  IF Len(strs) = 0 THEN <<>>
  ELSE IF Len(strs) = 1 THEN Head(strs)
  ELSE Head(strs) \o <<sep>> \o Join(Tail(strs), sep)

RECURSIVE CredentialArgsLastFirst(_)
(* Mutant of CredentialArgs: the pairs are added in reverse order. *)
CredentialArgsLastFirst(creds) ==
  IF creds = <<>> THEN <<>>
  ELSE CredentialArgsLastFirst(Tail(creds))
         \o <<W("--credential"), <<Head(creds)[1], ":", Head(creds)[2]>> >>

RECURSIVE CredentialArgs(_)
(* the loop extending the command by --credential type:data *)
CredentialArgs(creds) ==
  IF creds = <<>> THEN <<>>
  ELSE <<W("--credential"), <<Head(creds)[1], ":", Head(creds)[2]>> >>
         \o CredentialArgs(Tail(creds))

ArtifactsCmd(names, disk, creds) ==
  << W("image_export.py"), W("--artifact_filters"),
     Join([i \in 1..Len(names) |-> W(names[i])], ","),
     W("--write"), W(OutputDir), W("--partitions"), W("all"),
     W("--volumes"), W("all"), W("--unattended") >>
  \o CredentialArgs(creds) \o <<W(disk)>>

FilesCmd(name, disk, creds) ==
  << W("image_export.py"), W("--name"), W(name),
     W("--write"), W(OutputDir), W("--partitions"), W("all"),
     W("--volumes"), W("all") >>
  \o CredentialArgs(creds) \o <<W(disk)>>

(***************************************************************************)
(* The initial state: the caller has chosen a function and its arguments.  *)
(***************************************************************************)
InitExtraction ==
  /\ pc = IF op = "_image_export" THEN "image_export" ELSE "call"
  /\ exc = NoExc
  /\ returned = None
  /\ artifact_names \in IF op = "extract_artifacts"
                         THEN SeqUpTo(ArtifactPool, MaxNames) ELSE {<<>>}
  /\ file_name \in IF op = "extract_files" THEN FileNamePool ELSE {""}
  /\ credentials \in IF op \in {"extract_artifacts", "extract_files"}
                      THEN SeqUpTo(CredentialPool, MaxCreds) ELSE {<<>>}
  /\ disk_path \in IF op = "bruteforce_password_hashes" THEN {""} ELSE DiskPaths
  /\ timeout \in CASE op = "_image_export" -> CallerTimeouts
                  [] op = "bruteforce_password_hashes" -> {BRUTEFORCE_TIMEOUT}
                  [] OTHER -> {DEFAULT_TIMEOUT}
  /\ command = IF op = "_image_export" THEN <<W("image_export.py"), W(disk_path)>> ELSE <<>>
  /\ config_loaded = FALSE
  /\ DOCKER_ENABLED = FALSE
  /\ dependencies = <<>>
  /\ launches = <<>>
  /\ tool = NoTool
  /\ out_files = {}

InitCracking ==
  /\ password_hashes \in IF op = "bruteforce_password_hashes"
                          THEN HashLists ELSE {<<>>}
  /\ tmp_dir \in IF op = "bruteforce_password_hashes" THEN TmpDirs ELSE {""}
  /\ extra_args \in IF op = "bruteforce_password_hashes" THEN ExtraArgs ELSE {<<>>}
  /\ fs \in IF op = "bruteforce_password_hashes"
             THEN {f \in [Paths -> {None, Some(<<"words">>)}] :
                     \A p \in Paths \ {UserList, SystemList, UserRules} : f[p] = None}
             ELSE {[p \in Paths |-> None]}
  /\ cmd = <<>>
  /\ pot_file = None
  /\ child = NoChild
  /\ timer = NoTimer
  /\ terminate_call = None
  /\ pot_read = None
  /\ result = <<>>

(* One call, the first of its caller, with no other call beside it. *)
InitAlone ==
  /\ parked = NoCall
  /\ calls = 1
  /\ last = NoCall

Init ==
  /\ op \in {"extract_artifacts", "extract_files", "_image_export",
              "bruteforce_password_hashes"}
  /\ InitExtraction
  /\ InitCracking
  /\ InitAlone

(***************************************************************************)
(* extract_artifacts, up to its call of _image_export                      *)
(***************************************************************************)
extract_artifacts ==
  /\ pc = "call" /\ op = "extract_artifacts"
  /\ command' = ArtifactsCmd(artifact_names, disk_path, credentials)
  /\ pc' = "image_export"
  /\ UNCHANGED <<seqVars, op, exc, returned, argVars, config_loaded, DOCKER_ENABLED,
                 dependencies, launches, tool, out_files, bfArgs, bfVars>>

(***************************************************************************)
(* extract_files, up to its call of _image_export                          *)
(***************************************************************************)
(* Mutant of DiskPathMissing: no check of disk_path. *)
DiskPathNeverMissing(disk) == FALSE

(* not disk_path *)
DiskPathMissing(disk) == disk = ""

extract_files ==
  /\ pc = "call" /\ op = "extract_files"
  /\ IF DiskPathMissing(disk_path)
       THEN /\ exc' = TurbiniaException([kind |-> "no local_path"])
            /\ pc' = "done"
            /\ UNCHANGED command
       ELSE /\ command' = FilesCmd(file_name, disk_path, credentials)
            /\ pc' = "image_export"
            /\ UNCHANGED exc
  /\ UNCHANGED <<seqVars, op, returned, argVars, config_loaded, DOCKER_ENABLED,
                 dependencies, launches, tool, out_files, bfArgs, bfVars>>

(***************************************************************************)
(* _image_export                                                           *)
(***************************************************************************)
JobName == Lower("FileArtifactExtractionJob")

(* docker_image as lines 52-55 leave it *)
DockerImage(deps) ==
  IF Truthy(Get(deps, JobName)) THEN Get(Get(deps, JobName), "docker_image") ELSE None

(* Mutant of UseContainer: the flag is not consulted. *)
UseContainerAnyImage(enabled, deps) == DockerImage(deps) # None

(* the test of line 56 *)
UseContainer(enabled, deps) == enabled /\ DockerImage(deps) # None

(* Mutant of JobTimeout: a falsy job timeout (0) falls back too. *)
JobTimeoutFalsy(deps, default) ==
  IF Get(Get(deps, JobName), "timeout") \in {None, Some(0)}
    THEN default
    ELSE Get(deps, JobName).timeout[1]

(* job_timeout as lines 63-65 leave it *)
JobTimeout(deps, default) ==
  IF Get(Get(deps, JobName), "timeout") = None
    THEN default
    ELSE Get(deps, JobName).timeout[1]

(* the keyword arguments of the execute_container call *)
ContainerLaunch(argv, deps, disk, default) ==
  [mode |-> "container", image |-> DockerImage(deps)[1], command |-> argv,
   shell |-> FALSE, ro_paths |-> <<disk>>, rw_paths |-> <<OutputDir>>,
   timeout_limit |-> JobTimeout(deps, default)]

(* the arguments of the check_call call *)
LocalLaunch(argv, default) ==
  [mode |-> "local", command |-> <<W("sudo")>> \o argv, timeout |-> default]

(* Lines 50-73 up to the point where the call blocks on the tool: the      *)
(* configuration is loaded, one execution path is chosen and started.      *)
ImageExportLaunch ==
  /\ pc = "image_export"
  /\ \E enabled \in BOOLEAN, deps \in DependencyMaps :
       /\ config_loaded' = TRUE
       /\ DOCKER_ENABLED' = enabled
       /\ dependencies' = deps
       /\ IF UseContainer(enabled, deps)
            THEN /\ launches' = Append(launches,
                                   ContainerLaunch(command, deps, disk_path, timeout))
                 /\ pc' = "execute_container"
                 /\ UNCHANGED command
            ELSE /\ launches' = Append(launches, LocalLaunch(command, timeout))
                 /\ command' = <<W("sudo")>> \o command
                 /\ pc' = "check_call"
  /\ tool' = [state |-> "running"]
  /\ UNCHANGED <<seqVars, op, exc, returned, argVars, out_files, bfArgs, bfVars>>

(* The extraction tool writes one more file under output_dir. *)
ToolWrites ==
  /\ tool.state = "running"
  /\ \E f \in ExtractedFilePool \ out_files : out_files' = out_files \cup {f}
  /\ UNCHANGED <<seqVars, op, pc, exc, returned, argVars, command, config_loaded,
                 DOCKER_ENABLED, dependencies, launches, tool, bfArgs,
                 bfVars>>

(* The extraction tool exits with a status of its own. *)
ToolExits ==
  /\ tool.state = "running"
  /\ \E rc \in ExitCodes : tool' = [state |-> "exited", rc |-> rc]
  /\ UNCHANGED <<seqVars, op, pc, exc, returned, argVars, command, config_loaded,
                 DOCKER_ENABLED, dependencies, launches, out_files, bfArgs,
                 bfVars>>

(* Mutant of CheckCallEnds: check_call returns without waiting for the     *)
(* tool's exit.                                                            *)
CheckCallReturnsEarly ==
  /\ pc = "check_call" /\ tool.state = "running"
  /\ pc' = "walk"
  /\ UNCHANGED <<seqVars, op, exc, returned, argVars, exVars, bfArgs, bfVars>>

(* subprocess.check_call returns or raises CalledProcessError (lines 72-75) *)
CheckCallOutcome(rc) ==
  IF rc = 0 THEN [pc |-> "walk", exc |-> NoExc]
  ELSE [pc |-> "done",
        exc |-> TurbiniaException([kind |-> "failed", returncode |-> rc])]

CheckCallEnds ==
  /\ pc = "check_call" /\ tool.state = "exited"
  /\ pc' = CheckCallOutcome(tool.rc).pc
  /\ exc' = CheckCallOutcome(tool.rc).exc
  /\ UNCHANGED <<seqVars, op, returned, argVars, exVars, bfArgs, bfVars>>

(* Mutant of CheckCallTimesOut: TimeoutExpired is raised with the tool     *)
(* left running.                                                           *)
CheckCallTimesOutNoKill ==
  /\ pc = "check_call" /\ tool.state = "running"
  /\ exc' = TurbiniaException([kind |-> "timed out", timeout |-> timeout])
  /\ pc' = "done"
  /\ UNCHANGED <<seqVars, op, returned, argVars, exVars, bfArgs, bfVars>>

(* subprocess.check_call kills the tool at the timeout and raises          *)
(* TimeoutExpired (lines 76-78)                                            *)
CheckCallTimesOut ==
  /\ pc = "check_call" /\ tool.state = "running"
  /\ tool' = [state |-> "killed"]
  /\ exc' = TurbiniaException([kind |-> "timed out", timeout |-> timeout])
  /\ pc' = "done"
  /\ UNCHANGED <<seqVars, op, returned, argVars, command, config_loaded,
                 DOCKER_ENABLED, dependencies, launches, out_files, bfArgs,
                 bfVars>>

(* execute_container returns (stdout, stderr, ret): line 66 binds ret and  *)
(* nothing reads it.                                                       *)
ContainerOutcome(ret) == [pc |-> "walk", exc |-> NoExc]

ContainerEnds ==
  /\ pc = "execute_container" /\ tool.state = "exited"
  /\ pc' = ContainerOutcome(tool.rc).pc
  /\ exc' = ContainerOutcome(tool.rc).exc
  /\ UNCHANGED <<seqVars, op, returned, argVars, exVars, bfArgs, bfVars>>

(* execute_container fails (the container runtime's error, its timeout):   *)
(* its exception passes through _image_export, which catches nothing here. *)
ContainerFails ==
  /\ pc = "execute_container" /\ tool.state = "running"
  /\ tool' = [state |-> "removed"]
  /\ exc' = TurbiniaException([kind |-> "container"])
  /\ pc' = "done"
  /\ UNCHANGED <<seqVars, op, returned, argVars, command, config_loaded,
                 DOCKER_ENABLED, dependencies, launches, out_files, bfArgs,
                 bfVars>>

(* os.walk(output_dir) and the return (lines 80-88); the walk's order is   *)
(* the file system's, so the list is modelled by the set of its paths.     *)
CollectedFilePaths(files) == {<<OutputDir, f>> : f \in files}

Walk ==
  /\ pc = "walk"
  /\ returned' = Some(CollectedFilePaths(out_files))
  /\ pc' = "done"
  /\ UNCHANGED <<seqVars, op, exc, argVars, exVars, bfArgs, bfVars>>

(***************************************************************************)
(* bruteforce_password_hashes                                              *)
(***************************************************************************)
(* os.path.isfile(path) *)
IsFile(files, path) == files[path] # None

RECURSIVE Concat(_)
(* ''.join(strs) *)
Concat(strs) == IF strs = <<>> THEN <<>> ELSE Head(strs) \o Concat(Tail(strs))

(* sub in s *)
Contains(s, sub) ==
  \E i \in 1..(Len(s) - Len(sub) + 1) : SubSeq(s, i, i + Len(sub) - 1) = sub

RECURSIVE Split(_, _)
(* s.split(sep), sep one piece *)
Split(s, sep) ==
  IF \A i \in 1..Len(s) : s[i] # sep THEN <<s>>
  ELSE LET i == CHOOSE j \in 1..Len(s) : s[j] = sep /\ \A k \in 1..(j - 1) : s[k] # sep
       IN <<SubSeq(s, 1, i - 1)>> \o Split(SubSeq(s, i + 1, Len(s)), sep)

CryptMarker == <<"$", "y", "$">>

(* the test of line 216 *)
UseJohn(hashes) == Contains(Concat(hashes), CryptMarker)

(* Mutant of PasswordList: the user's list is not looked for. *)
PasswordListSystemOnly(files) == SystemList

(* the password list of lines 198-204 *)
PasswordList(files) == IF IsFile(files, UserList) THEN UserList ELSE SystemList

(* the test of line 207 *)
NoPasswordList(files) == ~IsFile(files, PasswordList(files))

(* the rules file of lines 199-214 *)
PasswordRules(files) == IF IsFile(files, UserRules) THEN UserRules ELSE TmpRules

(* Mutant of HashcatPot: the result store is always in gettempdir(). *)
HashcatPotInTempDir(dir) == <<GetTempDir, "hashcat.pot">>

(* os.path.join((tmp_dir or tempfile.gettempdir()), 'hashcat.pot') *)
HashcatPot(dir) == <<IF dir # "" THEN dir ELSE GetTempDir, "hashcat.pot">>

(* pot_file as lines 197-221 leave it *)
PotFile(hashes, dir) == IF UseJohn(hashes) THEN JohnPot ELSE HashcatPot(dir)

JohnCmd(list) ==
  <<W("john"), W("--format=crypt"), <<"--wordlist=">> \o list, TmpHashes>>

HashcatCmd(extra, pot, list, rules) ==
  <<W("hashcat"), W("--force"), W("-a"), W("0")>>
  \o (IF extra # <<>> THEN Split(extra, " ") ELSE <<>>)
  \o << <<"--potfile-path=">> \o pot >>
  \o <<TmpHashes, list>>
  \o <<W("-r"), rules>>

(* cmd as lines 216-229 leave it *)
CrackCmd(hashes, dir, extra, files) ==
  IF UseJohn(hashes)
    THEN JohnCmd(PasswordList(files))
    ELSE HashcatCmd(extra, HashcatPot(dir), PasswordList(files), PasswordRules(files))

(* the files lines 193-214 write: the hashes, and the rules when there are none *)
Prepared(files, hashes) ==
  [p \in Paths |->
     IF p = TmpHashes THEN Some(Join(hashes, "\n"))
     ELSE IF p = TmpRules /\ ~NoPasswordList(files) /\ ~IsFile(files, UserRules)
       THEN Some(<<":", "\n", "d">>)
     ELSE files[p]]

(* Lines 193-229: the input files, the password list or the bail-out, and  *)
(* the command.                                                            *)
Prepare ==
  /\ pc = "call" /\ op = "bruteforce_password_hashes"
  /\ fs' = Prepared(fs, password_hashes)
  /\ IF NoPasswordList(fs)
       THEN /\ exc' = TurbiniaException([kind |-> "No password list available"])
            /\ pc' = "done"
            /\ UNCHANGED <<cmd, pot_file>>
       ELSE /\ cmd' = CrackCmd(password_hashes, tmp_dir, extra_args, fs)
            /\ pot_file' = PotFile(password_hashes, tmp_dir)
            /\ pc' = "Popen"
            /\ UNCHANGED exc
  /\ UNCHANGED <<seqVars, op, returned, argVars, exVars, bfArgs, child, timer,
                 terminate_call, pot_read, result>>

(* Mutant of Popen: the timer is made and started before the child, and    *)
(* is left waiting when Popen raises.                                      *)
PopenAfterTimer ==
  /\ pc = "Popen"
  /\ timer' = [state |-> "waiting", finished |-> FALSE]
  /\ \/ /\ child' = [state |-> "running", signalled |-> FALSE, written |-> 0,
                      wrote |-> <<>>]
        /\ pc' = "communicate"
        /\ UNCHANGED exc
     \/ /\ exc' = TurbiniaException([kind |-> "failed", cause |-> OSError(cmd[1])])
        /\ pc' = "done"
        /\ UNCHANGED child
  /\ UNCHANGED <<seqVars, op, returned, argVars, exVars, bfArgs, fs, cmd,
                 pot_file, terminate_call, pot_read, result>>

(* Lines 233-235: subprocess.Popen starts the child, or raises OSError     *)
(* (line 240); then the Timer is made and started.                         *)
Popen ==
  /\ pc = "Popen"
  /\ \/ /\ child' = [state |-> "running", signalled |-> FALSE, written |-> 0,
                   wrote |-> <<>>]
        /\ timer' = [state |-> "waiting", finished |-> FALSE]
        /\ pc' = "communicate"
        /\ UNCHANGED exc
     \/ /\ exc' = TurbiniaException([kind |-> "failed", cause |-> OSError(cmd[1])])
        /\ pc' = "done"
        /\ UNCHANGED <<child, timer>>
  /\ UNCHANGED <<seqVars, op, returned, argVars, exVars, bfArgs, fs, cmd, pot_file,
                 terminate_call, pot_read, result>>

(* The result store the tool started by command argv appends to: john's   *)
(* own, or the one hashcat is given by --potfile-path.                     *)
ToolPot(argv) ==
  IF argv[1] = W("john") THEN JohnPot
  ELSE Tail(argv[CHOOSE i \in 1..Len(argv) : argv[i][1] = "--potfile-path="])

(* The cracking tool appends one of the chunks of pool to its result       *)
(* store.                                                                  *)
Appends(pool) ==
  /\ child.state = "running" /\ child.written < MaxChunks
  /\ \E chunk \in pool :
       /\ fs' = [fs EXCEPT ![ToolPot(cmd)] =
                   Some((IF @ = None THEN <<>> ELSE @[1]) \o chunk)]
       /\ child' = [child EXCEPT !.written = @ + 1, !.wrote = @ \o chunk]
  /\ UNCHANGED <<seqVars, op, pc, exc, returned, argVars, exVars, bfArgs, cmd,
                 pot_file, timer, terminate_call, pot_read, result>>

ChildWrites == Appends(ChunkPool)

(* The cracking tool appends a line of a cracked hash to its result store. *)
ChildWritesLine == Appends(CrackedLines)

(* The cracking tool appends a line, with or without a colon, to its       *)
(* result store.                                                           *)
ChildWritesAnyLine == Appends(CrackedLines \cup MalformedLines)

(* The cracking tool exits with a status of its own; in_time says that the *)
(* timer had not run out by then.                                          *)
ChildExits ==
  /\ child.state = "running"
  /\ \E rc \in ExitCodes :
       child' = [state |-> "exited", signalled |-> child.signalled,
                 written |-> child.written, wrote |-> child.wrote,
                 rc |-> rc, in_time |-> (timer.state = "waiting")]
  /\ UNCHANGED <<seqVars, op, pc, exc, returned, argVars, exVars, bfArgs, fs, cmd,
                 pot_file, timer, terminate_call, pot_read, result>>

(* The cracking tool dies of the SIGTERM it was sent. *)
ChildDies ==
  /\ child.state = "running" /\ child.signalled
  /\ child' = [state |-> "exited", signalled |-> TRUE,
               written |-> child.written, wrote |-> child.wrote,
               rc |-> -15, in_time |-> FALSE]
  /\ UNCHANGED <<seqVars, op, pc, exc, returned, argVars, exVars, bfArgs, fs, cmd,
                 pot_file, timer, terminate_call, pot_read, result>>

(* threading.Timer.run: finished.wait(interval) runs out. *)
TimerExpires ==
  /\ timer.state = "waiting" /\ ~timer.finished
  /\ timer' = [timer EXCEPT !.state = "expired"]
  /\ UNCHANGED <<seqVars, op, pc, exc, returned, argVars, exVars, bfArgs, fs, cmd,
                 pot_file, child, terminate_call, pot_read, result>>

(* threading.Timer.run: the test of finished.is_set(), after the wait ran  *)
(* out or was ended by cancel().                                           *)
TimerChecks ==
  /\ \/ timer.state = "expired"
     \/ timer.state = "waiting" /\ timer.finished
  /\ timer' = [timer EXCEPT !.state = IF timer.finished THEN "finished" ELSE "calling"]
  /\ UNCHANGED <<seqVars, op, pc, exc, returned, argVars, exVars, bfArgs, fs, cmd,
                 pot_file, child, terminate_call, pot_read, result>>

(* Mutant of Terminated: no signal is sent. *)
TerminatedNoSignal(c) == c

(* Popen.terminate: SIGTERM goes to the child unless its returncode is set *)
Terminated(c) ==
  IF c.state = "running" THEN [c EXCEPT !.signalled = TRUE] ELSE c

(* threading.Timer.run calls child.terminate (line 234), sets finished and *)
(* ends.                                                                   *)
TimerCalls ==
  /\ timer.state = "calling"
  /\ child' = Terminated(child)
  /\ terminate_call' = Some(child.state)
  /\ timer' = [state |-> "finished", finished |-> TRUE]
  /\ UNCHANGED <<seqVars, op, pc, exc, returned, argVars, exVars, bfArgs, fs, cmd,
                 pot_file, pot_read, result>>

(* child.communicate() returns once the child has exited (line 236). *)
Communicate ==
  /\ pc = "communicate" /\ child.state = "exited"
  /\ child' = [child EXCEPT !.state = "reaped"]
  /\ pc' = "is_alive"
  /\ UNCHANGED <<seqVars, op, exc, returned, argVars, exVars, bfArgs, fs, cmd,
                 pot_file, timer, terminate_call, pot_read, result>>

(* timer.is_alive(): the timer's thread has not ended *)
TimerIsAlive(t) == t.state # "finished"

(* the test of line 238 *)
IsAlive ==
  /\ pc = "is_alive"
  /\ pc' = IF TimerIsAlive(timer) THEN "cancel" ELSE "isfile"
  /\ UNCHANGED <<seqVars, op, exc, returned, argVars, exVars, bfArgs, bfVars>>

(* timer.cancel() (line 239) *)
Cancel ==
  /\ pc = "cancel"
  /\ timer' = [timer EXCEPT !.finished = TRUE]
  /\ pc' = "isfile"
  /\ UNCHANGED <<seqVars, op, exc, returned, argVars, exVars, bfArgs, fs, cmd,
                 pot_file, child, terminate_call, pot_read, result>>

(***************************************************************************)
(* Reading the result store (lines 243-254)                                *)
(***************************************************************************)
Whitespace == {" ", "\n", "\t", "\r"}

RECURSIVE Lines(_)
(* for line in fh: the content cut after each "\n", line ends kept *)
Lines(content) ==
  IF content = <<>> THEN <<>>
  ELSE IF \A i \in 1..Len(content) : content[i] # "\n" THEN <<content>>
  ELSE LET i == CHOOSE j \in 1..Len(content) :
                  content[j] = "\n" /\ \A k \in 1..(j - 1) : content[k] # "\n"
       IN <<SubSeq(content, 1, i)>> \o Lines(SubSeq(content, i + 1, Len(content)))

RECURSIVE FindFromRight(_, _, _)
(* the scan of str.rsplit: the last index at or below i that holds sep, or 0 *)
FindFromRight(s, sep, i) ==
  IF i = 0 THEN 0
  ELSE IF s[i] = sep THEN i
  ELSE FindFromRight(s, sep, i - 1)

(* Mutant of RSplit1: line.split(sep, 1), cutting at the first sep. *)
SplitAtFirst(line, sep) ==
  IF \A i \in 1..Len(line) : line[i] # sep THEN <<line>>
  ELSE LET i == CHOOSE j \in 1..Len(line) :
                  line[j] = sep /\ \A k \in 1..(j - 1) : line[k] # sep
       IN <<SubSeq(line, 1, i - 1), SubSeq(line, i + 1, Len(line))>>

(* line.rsplit(sep, 1) *)
RSplit1(line, sep) ==
  LET i == FindFromRight(line, sep, Len(line))
  IN IF i = 0 THEN <<line>>
     ELSE <<SubSeq(line, 1, i - 1), SubSeq(line, i + 1, Len(line))>>

RECURSIVE RStrip(_)
(* s.rstrip() *)
RStrip(s) ==
  IF s = <<>> THEN <<>>
  ELSE IF s[Len(s)] \in Whitespace THEN RStrip(SubSeq(s, 1, Len(s) - 1))
  ELSE s

RECURSIVE ParseLines(_, _)
(* The loop of lines 247-251 over the lines left, acc the result so far:   *)
(* a line that rsplit leaves in one part fails the unpacking of line 248.  *)
ParseLines(lines, acc) ==
  IF lines = <<>> THEN [error |-> FALSE, result |-> acc]
  ELSE LET parts == RSplit1(Head(lines), ":")
       IN IF Len(parts) # 2 THEN [error |-> TRUE, result |-> acc]
          ELSE LET plaintext == RStrip(parts[2])
               IN ParseLines(Tail(lines),
                             IF plaintext # <<>>
                               THEN Append(acc, <<parts[1], plaintext>>)
                               ELSE acc)

(* Mutant of PotExists: the result store is read without the test. *)
PotAssumed(files, pot) == TRUE

(* os.path.isfile(pot_file), the test of line 245 *)
PotExists(files, pot) == IsFile(files, pot)

(* Line 245; with no file the empty result is returned (line 254). *)
IsFileCheck ==
  /\ pc = "isfile"
  /\ IF PotExists(fs, pot_file)
       THEN pc' = "read" /\ UNCHANGED returned
       ELSE pc' = "done" /\ returned' = Some(result)
  /\ UNCHANGED <<seqVars, op, exc, argVars, exVars, bfArgs, bfVars>>

(* open(pot_file) and the loop over its lines (lines 246-251) *)
ReadPot ==
  /\ pc = "read"
  /\ IF ~IsFile(fs, pot_file)
       THEN /\ exc' = OSError([kind |-> "FileNotFoundError"])
            /\ pc' = "done"
            /\ UNCHANGED <<pot_read, result>>
       ELSE \E lines \in {Lines(fs[pot_file][1])} :
              \E parsed \in {ParseLines(lines, result)} :
                /\ pot_read' = fs[pot_file]
                /\ IF parsed.error
                     THEN /\ exc' = ValueError([kind |-> "not enough values to unpack"])
                          /\ pc' = "done"
                          /\ UNCHANGED result
                     ELSE /\ result' = parsed.result
                          /\ pc' = "remove"
                          /\ UNCHANGED exc
  /\ UNCHANGED <<seqVars, op, returned, argVars, exVars, bfArgs, fs, cmd, pot_file,
                 child, timer, terminate_call>>

(* Mutant of RemovePot: the result is returned with the file left. *)
RemovePotSkipped ==
  /\ pc = "remove"
  /\ returned' = Some(result)
  /\ pc' = "done"
  /\ UNCHANGED <<seqVars, op, exc, argVars, exVars, bfArgs, bfVars>>

(* os.remove(pot_file) and the return (lines 252-254) *)
RemovePot ==
  /\ pc = "remove"
  /\ IF ~IsFile(fs, pot_file)
       THEN /\ exc' = OSError([kind |-> "FileNotFoundError"])
            /\ UNCHANGED <<fs, returned>>
       ELSE /\ fs' = [fs EXCEPT ![pot_file] = None]
            /\ returned' = Some(result)
            /\ UNCHANGED exc
  /\ pc' = "done"
  /\ UNCHANGED <<seqVars, op, argVars, exVars, bfArgs, cmd, pot_file, child, timer,
                 terminate_call, pot_read, result>>

(***************************************************************************)
(* More than one call of bruteforce_password_hashes                        *)
(***************************************************************************)
(* The frame of the running call: its arguments and locals, with the       *)
(* process and the timer it started.                                       *)
Frame ==
  [pc |-> pc, exc |-> exc, returned |-> returned,
   password_hashes |-> password_hashes, tmp_dir |-> tmp_dir,
   extra_args |-> extra_args, cmd |-> cmd, pot_file |-> pot_file,
   child |-> child, timer |-> timer, terminate_call |-> terminate_call,
   pot_read |-> pot_read, result |-> result]

(* The frame of a call of lines 176-177 that has not run a line yet. *)
NewFrame(hashes, dir, extra) ==
  [pc |-> "call", exc |-> NoExc, returned |-> None,
   password_hashes |-> hashes, tmp_dir |-> dir, extra_args |-> extra,
   cmd |-> <<>>, pot_file |-> None, child |-> NoChild, timer |-> NoTimer,
   terminate_call |-> None, pot_read |-> None, result |-> <<>>]

(* frame f becomes the running call *)
Resume(f) ==
  /\ pc' = f.pc
  /\ exc' = f.exc
  /\ returned' = f.returned
  /\ password_hashes' = f.password_hashes
  /\ tmp_dir' = f.tmp_dir
  /\ extra_args' = f.extra_args
  /\ cmd' = f.cmd
  /\ pot_file' = f.pot_file
  /\ child' = f.child
  /\ timer' = f.timer
  /\ terminate_call' = f.terminate_call
  /\ pot_read' = f.pot_read
  /\ result' = f.result

(* Two calls overlap: the scheduler turns from the threads and the child   *)
(* of one call to those of the other.  The file system is the one thing    *)
(* the two calls share.                                                    *)
Switch ==
  /\ parked # NoCall
  /\ parked' = Frame
  /\ Resume(parked)
  /\ UNCHANGED <<op, argVars, exVars, fs, calls, last>>

(* The caller, its call over, calls bruteforce_password_hashes again. *)
NextCall ==
  /\ op = "bruteforce_password_hashes" /\ pc = "done" /\ calls < MaxCalls
  /\ calls' = calls + 1
  /\ last' = [pc |-> "done", exc |-> exc, returned |-> returned,
              pot_file |-> pot_file]
  /\ \E hashes \in {password_hashes}, dir \in TmpDirs :
       Resume(NewFrame(hashes, dir, extra_args))
  /\ UNCHANGED <<op, argVars, exVars, fs, parked>>

Next ==
  \/ extract_artifacts
  \/ extract_files
  \/ ImageExportLaunch
  \/ ToolWrites
  \/ ToolExits
  \/ CheckCallEnds
  \/ CheckCallTimesOut
  \/ ContainerEnds
  \/ ContainerFails
  \/ Walk
  \/ Prepare
  \/ Popen
  \/ ChildWrites
  \/ ChildExits
  \/ ChildDies
  \/ TimerExpires
  \/ TimerChecks
  \/ TimerCalls
  \/ Communicate
  \/ IsAlive
  \/ Cancel
  \/ IsFileCheck
  \/ ReadPot
  \/ RemovePot

Spec == Init /\ [][Next]_vars

(***************************************************************************)
(* Two overlapping calls on the hashcat path.                              *)
(***************************************************************************)
InitOverlap ==
  /\ op = "bruteforce_password_hashes"
  /\ InitExtraction
  /\ InitCracking
  /\ ~UseJohn(password_hashes)
  /\ tmp_dir # ""
  /\ extra_args = <<>>
  /\ fs[UserList] # None /\ fs[SystemList] = None /\ fs[UserRules] = None
  /\ parked \in {NewFrame(password_hashes, dir, extra_args) : dir \in TmpDirs}
  /\ calls = 1
  /\ last = NoCall

NextOverlap ==
  \/ Prepare
  \/ Popen
  \/ ChildWritesLine
  \/ ChildExits
  \/ ChildDies
  \/ TimerExpires
  \/ TimerChecks
  \/ TimerCalls
  \/ Communicate
  \/ IsAlive
  \/ Cancel
  \/ IsFileCheck
  \/ ReadPot
  \/ RemovePot
  \/ Switch

SpecOverlap == InitOverlap /\ [][NextOverlap]_vars

(***************************************************************************)
(* A caller's calls one after the other.                                   *)
(***************************************************************************)
InitSequence ==
  /\ op = "bruteforce_password_hashes"
  /\ InitExtraction
  /\ InitCracking
  /\ Len(password_hashes) = 1
  /\ extra_args = <<>>
  /\ fs[UserList] # None /\ fs[SystemList] = None /\ fs[UserRules] = None
  /\ InitAlone

NextSequence ==
  \/ Prepare
  \/ Popen
  \/ ChildWritesAnyLine
  \/ ChildExits
  \/ ChildDies
  \/ TimerExpires
  \/ TimerChecks
  \/ TimerCalls
  \/ Communicate
  \/ IsAlive
  \/ Cancel
  \/ IsFileCheck
  \/ ReadPot
  \/ RemovePot
  \/ NextCall

SpecSequence == InitSequence /\ [][NextSequence]_vars

(***************************************************************************)
(* One call with its threads and its child scheduled fairly: the calling   *)
(* thread and the timer's thread keep running, the timer's wait of timeout *)
(* seconds runs out, and a child that was sent SIGTERM dies.  Nothing      *)
(* makes the child write or exit by itself.                                *)
(***************************************************************************)
NextCrack ==
  \/ Prepare
  \/ Popen
  \/ ChildWritesAnyLine
  \/ ChildExits
  \/ ChildDies
  \/ TimerExpires
  \/ TimerChecks
  \/ TimerCalls
  \/ Communicate
  \/ IsAlive
  \/ Cancel
  \/ IsFileCheck
  \/ ReadPot
  \/ RemovePot

(* the steps of the calling thread: one is enabled at a time *)
CallerStep ==
  \/ Prepare
  \/ Popen
  \/ Communicate
  \/ IsAlive
  \/ Cancel
  \/ IsFileCheck
  \/ ReadPot
  \/ RemovePot

(* the steps of the timer's thread: one is enabled at a time *)
TimerStep == TimerExpires \/ TimerChecks \/ TimerCalls

CallerRuns == WF_vars(CallerStep)
TimerRuns == WF_vars(TimerStep)
SignalledChildDies == WF_vars(ChildDies)

SpecLive ==
  /\ InitSequence
  /\ [][NextCrack]_vars
  /\ CallerRuns /\ TimerRuns /\ SignalledChildDies

(***************************************************************************)
(*                               The claims                                *)
(***************************************************************************)
ExtractionOps == {"extract_artifacts", "extract_files", "_image_export"}
Cracking == op = "bruteforce_password_hashes"

(* The extraction tool's run ended in failure: killed at the timeout, its  *)
(* container given up, or a non-zero exit status.                          *)
ToolRunFailed ==
  \/ tool.state \in {"killed", "removed"}
  \/ tool.state = "exited" /\ tool.rc # 0

(* C1: in either execution mode, once the extraction tool's run has ended  *)
(* in failure (non-zero exit status or timeout) the call returns no file   *)
(* list, and when the call is over it has raised TurbiniaException.        *)
C1_FailedRunRaises ==
  (op \in ExtractionOps /\ ToolRunFailed) =>
     /\ returned = None
     /\ pc = "done" => exc.type = "TurbiniaException"

(* The configuration asks for the container: DOCKER_ENABLED is true and    *)
(* the entry of 'fileartifactextractionjob' has a docker_image.            *)
ContainerConfigured ==
  /\ DOCKER_ENABLED = TRUE
  /\ "fileartifactextractionjob" \in DOMAIN dependencies
  /\ dependencies["fileartifactextractionjob"].docker_image # None

(* _image_export has passed the choice of its execution path. *)
PathChosen ==
  /\ op \in ExtractionOps
  /\ \/ pc \in {"check_call", "execute_container", "walk"}
     \/ pc = "done" /\ command # <<>>

(* C2: _image_export runs the command in a container if and only if        *)
(* DOCKER_ENABLED is true and the job's dependency entry has a docker      *)
(* image, runs the local subprocess otherwise, and takes exactly one of    *)
(* the two paths per call.                                                 *)
C2_ContainerIffConfigured ==
  /\ Len(launches) <= 1
  /\ PathChosen => Len(launches) = 1
  /\ \A i \in 1..Len(launches) :
       /\ launches[i].mode \in {"container", "local"}
       /\ launches[i].mode = "container" <=> ContainerConfigured

C2_Witness ==
  /\ Len(launches) = 1 /\ launches[1].mode = "container"
  /\ pc = "done" /\ returned # None

(* C3: the container is given the job's own timeout when one is set and    *)
(* the caller's otherwise, disk_path as its only read-only path and        *)
(* output_dir as its only read-write path; the local run is given the      *)
(* caller's timeout.                                                       *)
C3_TimeoutAndMounts ==
  \A i \in 1..Len(launches) :
    LET l == launches[i]
        entry == dependencies["fileartifactextractionjob"]
    IN IF l.mode = "container"
         THEN /\ l.timeout_limit =
                   (IF entry.timeout # None THEN entry.timeout[1] ELSE timeout)
              /\ l.ro_paths = <<disk_path>>
              /\ l.rw_paths = <<OutputDir>>
         ELSE l.timeout = timeout

C3_Witness ==
  /\ Len(launches) = 1 /\ launches[1].mode = "container"
  /\ dependencies["fileartifactextractionjob"].timeout = Some(0)
  /\ launches[1].timeout_limit = 0 /\ timeout # 0
  /\ launches[1].ro_paths = <<"/dev/loop0">>

(* C4: extract_files with an empty disk_path raises TurbiniaException with *)
(* no command built, the configuration not consulted, no process or        *)
(* container launched and no walk of the output directory.                 *)
C4_EmptyDiskPathFailsFast ==
  (op = "extract_files" /\ disk_path = "" /\ pc # "call") =>
     /\ pc = "done"
     /\ exc.type = "TurbiniaException"
     /\ command = <<>>
     /\ ~config_loaded
     /\ launches = <<>> /\ tool = NoTool
     /\ returned = None

C4_Witness ==
  /\ op = "extract_files" /\ disk_path = "" /\ pc = "done"
  /\ exc = TurbiniaException([kind |-> "no local_path"])

(* The password list the cracking command names. *)
WordlistOf(argv) ==
  IF argv[1] = W("john") THEN Tail(argv[3]) ELSE argv[Len(argv) - 2]

(* C5: with neither ~/password.lst nor /usr/share/john/password.lst a file *)
(* the call raises TurbiniaException and no cracking tool is started; with *)
(* at least one of them the command names the user's list when it is there *)
(* and the system's otherwise.                                             *)
C5_PasswordListOrBail ==
  (Cracking /\ pc # "call") =>
     IF fs[UserList] = None /\ fs[SystemList] = None
       THEN /\ pc = "done"
            /\ exc.type = "TurbiniaException"
            /\ cmd = <<>> /\ child.state = "none" /\ timer.state = "none"
       ELSE /\ cmd # <<>>
            /\ WordlistOf(cmd) = (IF fs[UserList] # None THEN UserList ELSE SystemList)

C5_Witness ==
  /\ Cracking /\ pc = "done"
  /\ fs[UserList] = None /\ fs[SystemList] = None
  /\ exc = TurbiniaException([kind |-> "No password list available"])
  /\ child.state = "none"

(***************************************************************************)
(* The reference parse of a result store, written from the claim's words.  *)
(***************************************************************************)
HasColon(line) == \E i \in 1..Len(line) : line[i] = ":"

LastColon(line) ==
  CHOOSE i \in 1..Len(line) :
    line[i] = ":" /\ \A j \in (i + 1)..Len(line) : line[j] # ":"

(* s without its trailing white space *)
Trimmed(s) ==
  LET n == CHOOSE k \in 0..Len(s) :
             /\ k = 0 \/ s[k] \notin Whitespace
             /\ \A j \in (k + 1)..Len(s) : s[j] \in Whitespace
  IN SubSeq(s, 1, n)

RefHash(line) == SubSeq(line, 1, LastColon(line) - 1)
RefPlaintext(line) == Trimmed(SubSeq(line, LastColon(line) + 1, Len(line)))

(* a line that has a colon and a plaintext after its last colon *)
ValidLine(line) == HasColon(line) /\ RefPlaintext(line) # <<>>

RefPair(line) == <<RefHash(line), RefPlaintext(line)>>

(* the pairs of the valid lines, in file order, repeats kept *)
RefParse(content) ==
  LET valid == SelectSeq(Lines(content), ValidLine)
  IN [i \in 1..Len(valid) |-> RefPair(valid[i])]

(* The timer called child.terminate while the child was still running. *)
TimedOut == terminate_call = Some("running")

(* C6: when the timeout elapses while the child is still running, the      *)
(* child is sent the termination, the call does not raise for the timeout, *)
(* and every valid hash:plaintext line of the result store is returned.    *)
C6_TimeoutKeepsResults ==
  (Cracking /\ TimedOut) =>
     /\ child.signalled
     /\ exc.type # "TurbiniaException"
     /\ (pc = "done" /\ pot_read # None) =>
          \A i \in 1..Len(Lines(pot_read[1])) :
            ValidLine(Lines(pot_read[1])[i]) =>
               /\ returned # None
               /\ \E k \in 1..Len(returned[1]) :
                    returned[1][k] = RefPair(Lines(pot_read[1])[i])

(* C7: once the child has exited on its own before the timer ran out and   *)
(* child.communicate() has returned, child.terminate is not called.        *)
C7_NoLateTerminate ==
  ~(/\ Cracking
    /\ child.state = "reaped" /\ ~child.signalled /\ child.in_time
    /\ terminate_call = Some("reaped"))

(* C8: the list returned is the reference parse of the result store read:  *)
(* per line, the text before the last colon and the trimmed text after it, *)
(* kept when that plaintext is not empty, in file order with repeats.      *)
C8_ReturnsReferenceParse ==
  (Cracking /\ returned # None) =>
     returned[1] = (IF pot_read = None THEN <<>> ELSE RefParse(pot_read[1]))

C8_Witness ==
  /\ Cracking /\ returned # None
  /\ pot_read = Some(<<"abc", ":", "pass", ":", "word", "\n", "h2", ":", " ", "\n">>)
  /\ returned[1] = << << <<"abc", ":", "pass">>, <<"word">> >> >>

(* C9: with no result-store file after the tool has run, whether it ended  *)
(* by itself or was terminated, the call returns the empty list and raises *)
(* nothing.                                                                *)
C9_NoResultStoreReturnsEmpty ==
  (Cracking /\ pc = "done" /\ child.state = "reaped"
     /\ pot_read = None /\ fs[pot_file] = None) =>
     /\ exc = NoExc
     /\ returned = Some(<<>>)

C9_Witness ==
  /\ Cracking /\ pc = "done" /\ child.state = "reaped"
  /\ pot_read = None /\ fs[pot_file] = None
  /\ TimedOut
  /\ returned = Some(<<>>)

(* C10: a non-zero exit status of the cracking tool reaches the caller as  *)
(* a raised TurbiniaException.                                             *)
C10_NonZeroExitRaises ==
  (Cracking /\ pc = "done" /\ child.state = "reaped" /\ child.rc \in ExitCodes \ {0}) =>
     exc.type = "TurbiniaException"

(* C11: every failure of bruteforce_password_hashes reaches the caller as   *)
(* TurbiniaException, a result-store line with no colon included, and the  *)
(* result store that was read has been deleted when the call is over.      *)
C11_OnlyTurbiniaException ==
  (Cracking /\ pc = "done") =>
     /\ exc.type \in {"none", "TurbiniaException"}
     /\ pot_read # None => fs[pot_file] = None

(* One input hash holds the marker '$y$'. *)
SomeHashMarked(hashes) ==
  \E i \in 1..Len(hashes) :
    \E j \in 1..Len(hashes[i]) :
      /\ j + 2 <= Len(hashes[i])
      /\ hashes[i][j] = "$" /\ hashes[i][j + 1] = "y" /\ hashes[i][j + 2] = "$"

(* C12: john --format=crypt is the tool if and only if at least one single *)
(* input hash contains '$y$'; every other list, a list where the marker    *)
(* only shows across two adjacent hashes included, goes to hashcat.        *)
C12_JohnIffSomeHashMarked ==
  (Cracking /\ cmd # <<>>) =>
     IF SomeHashMarked(password_hashes)
       THEN cmd[1] = W("john") /\ cmd[2] = W("--format=crypt")
       ELSE cmd[1] = W("hashcat")

(***************************************************************************)
(* The argument list of the claim's words, element by element.             *)
(***************************************************************************)
(* names joined by commas, in input order *)
RefFilters(names) ==
  [i \in 1..(IF names = <<>> THEN 0 ELSE 2 * Len(names) - 1) |->
     IF i % 2 = 1 THEN names[(i + 1) \div 2] ELSE ","]

(* one --credential type:data pair per credential, in input order *)
RefCredentials(creds) ==
  [i \in 1..(2 * Len(creds)) |->
     IF i % 2 = 1 THEN <<"--credential">>
     ELSE <<creds[i \div 2][1], ":", creds[i \div 2][2]>>]

RefWrite ==
  << <<"--write">>, <<OutputDir>>, <<"--partitions">>, <<"all">>,
     <<"--volumes">>, <<"all">> >>

RefArguments ==
  (IF op = "extract_artifacts"
     THEN << <<"image_export.py">>, <<"--artifact_filters">>,
             RefFilters(artifact_names) >> \o RefWrite \o << <<"--unattended">> >>
     ELSE << <<"image_export.py">>, <<"--name">>, <<file_name>> >> \o RefWrite)
  \o RefCredentials(credentials) \o << <<disk_path>> >>

(* C13: the argument list handed to execution is image_export.py, the      *)
(* artifact filters joined by commas or the file name, the write options   *)
(* (--unattended in artifact mode only), one --credential type:data pair   *)
(* per credential in input order and disk_path last; the local execution   *)
(* has one leading sudo more than the containerized one.                   *)
C13_ArgumentList ==
  (op \in {"extract_artifacts", "extract_files"}) =>
     \A i \in 1..Len(launches) :
       launches[i].command =
         (IF launches[i].mode = "local" THEN << <<"sudo">> >> ELSE <<>>) \o RefArguments

C13_Witness ==
  /\ op = "extract_artifacts"
  /\ artifact_names = <<"BrowserHistory", "WindowsEventLogs">>
  /\ credentials = << <<"recovery_password", "1234">>, <<"password", "hunter2">> >>
  /\ Len(launches) = 1 /\ launches[1].mode = "local"
  /\ launches[1].command =
       << <<"sudo">>, <<"image_export.py">>, <<"--artifact_filters">>,
          <<"BrowserHistory", ",", "WindowsEventLogs">>,
          <<"--write">>, <<"/evidence/out">>, <<"--partitions">>, <<"all">>,
          <<"--volumes">>, <<"all">>, <<"--unattended">>,
          <<"--credential">>, <<"recovery_password", ":", "1234">>,
          <<"--credential">>, <<"password", ":", "hunter2">>,
          <<"/dev/loop0">> >>

(* The call ran the tool with subprocess.check_call. *)
LocalRun == Len(launches) = 1 /\ launches[1].mode = "local"

(* C14: in local mode a non-zero exit and an exceeded timeout both reach   *)
(* the caller as TurbiniaException, the first carrying the failure (the    *)
(* exit status), the second the timeout value, and after a timeout the     *)
(* tool's process is no longer running when the exception is raised.       *)
C14_LocalFailuresByKind ==
  (op \in ExtractionOps /\ LocalRun) =>
     /\ (pc = "done" /\ returned = None) =>
          /\ exc.type = "TurbiniaException"
          /\ \/ /\ tool.state = "exited" /\ tool.rc # 0
                /\ exc.msg.kind = "failed" /\ exc.msg.returncode = tool.rc
             \/ /\ tool.state = "killed"
                /\ exc.msg.kind = "timed out" /\ exc.msg.timeout = timeout
     /\ exc # NoExc => tool.state # "running"

C14_Witness ==
  /\ op = "_image_export" /\ LocalRun /\ pc = "done"
  /\ timeout = 30 /\ tool.state = "killed"
  /\ exc = TurbiniaException([kind |-> "timed out", timeout |-> 30])

(* C17: the output directory is not being walked while the extraction tool *)
(* this call started is still running.                                     *)
C17_WalkAfterToolEnds ==
  (op \in ExtractionOps /\ (pc = "walk" \/ returned # None)) =>
     /\ Len(launches) = 1
     /\ tool.state = "exited"

C17_Witness ==
  /\ op = "extract_files" /\ pc = "walk"
  /\ tool.state = "exited" /\ out_files = ExtractedFilePool

(* The call is on the hashcat path: its command is hashcat's. *)
OnHashcatPath(f) == f.cmd # <<>> /\ f.cmd[1] = <<"hashcat">>

(* tmp_dir, or the system's temporary directory for an empty tmp_dir *)
DirUsed(f) == IF f.tmp_dir = "" THEN "/tmp" ELSE f.tmp_dir

(* C15: two overlapping calls on the hashcat path that use the same        *)
(* tmp_dir read the same result-store path, which is also the one both     *)
(* tools append to; calls in different directories do not share it.        *)
C15_SameDirSameStore ==
  (parked # NoCall /\ OnHashcatPath(Frame) /\ OnHashcatPath(parked)) =>
     /\ DirUsed(Frame) = DirUsed(parked) =>
          /\ pot_file = parked.pot_file
          /\ ToolPot(cmd) = pot_file /\ ToolPot(parked.cmd) = pot_file
     /\ DirUsed(Frame) # DirUsed(parked) => pot_file # parked.pot_file

(* Both states of C15 at once: the other call has returned pairs though    *)
(* its own tool wrote nothing, and in doing so deleted the result store    *)
(* between this call's existence check and its read.                       *)
C15_Witness ==
  /\ parked # NoCall /\ tmp_dir = parked.tmp_dir
  /\ OnHashcatPath(Frame) /\ OnHashcatPath(parked)
  /\ parked.pc = "done" /\ parked.child.written = 0
  /\ parked.returned = Some(<< << <<"abc", ":", "pass">>, <<"word">> >> >>)
  /\ child.wrote = <<"abc", ":", "pass", ":", "word", "\n">>
  /\ pc = "done" /\ pot_read = None
  /\ exc = OSError([kind |-> "FileNotFoundError"])

(* C16: when Popen raises OSError the call ends there with                 *)
(* TurbiniaException carrying that error: no child, no timer made or left  *)
(* waiting, the result store not read and no file touched.                 *)
C16_LaunchErrorStartsNothing ==
  [][(Cracking /\ pc = "Popen" /\ exc' # NoExc) =>
       /\ pc' = "done" /\ returned' = None
       /\ exc'.type = "TurbiniaException"
       /\ exc'.msg.cause.type = "OSError"
       /\ child' = NoChild /\ timer' = NoTimer /\ terminate_call' = None
       /\ pot_read' = None /\ result' = <<>>
       /\ fs' = fs]_vars

(* Popen failed in a call that found an earlier call's result store: the   *)
(* store is still there.                                                   *)
C16_Witness ==
  /\ Cracking /\ pc = "done" /\ calls = 2
  /\ exc.type = "TurbiniaException" /\ exc.msg.kind = "failed"
  /\ exc.msg.cause.type = "OSError"
  /\ timer = NoTimer /\ pot_read = None
  /\ fs[pot_file] = Some(<<"garbage", "\n">>)

(* C18: after a call that returned normally the result store at the path   *)
(* it used does not exist; so what the caller's next call reads at that    *)
(* path is what its own tool wrote, and nothing the earlier call returned. *)
C18_ReturnedStoreIsGone ==
  /\ (Cracking /\ pc = "done" /\ returned # None) => fs[pot_file] = None
  /\ (Cracking /\ calls > 1 /\ last.returned # None /\ last.pot_file = pot_file) =>
        /\ fs[pot_file] \in {None, Some(child.wrote)}
        /\ pot_read \in {None, Some(child.wrote)}

C18_Witness ==
  /\ Cracking /\ calls = 2 /\ pc = "done"
  /\ last.pot_file = pot_file /\ pot_file = <<"/evidence/tmp", "hashcat.pot">>
  /\ last.returned = Some(<< << <<"abc", ":", "pass">>, <<"word">> >> >>)
  /\ child.state = "reaped" /\ pot_read = None
  /\ returned = Some(<<>>)

(* C19: a call that has started its child ends, returning or raising,      *)
(* whether the child exits by itself or runs until the timeout.            *)
C19_CallEnds == (Cracking /\ pc = "communicate") ~> (pc = "done")

(* The child ran until the timer called terminate, died of the signal, and *)
(* the call returned.                                                      *)
C19_Witness ==
  /\ Cracking /\ pc = "done" /\ returned # None
  /\ TimedOut /\ child.signalled /\ child.rc = -15

=============================================================================
